---- MODULE Spec2Model ----
(***************************************************************************)
(* Model of src/app.py: a Flask course catalog persisted as one JSON       *)
(* document (COURSE_FILE), every handler and both file utilities wrapped   *)
(* in an OpenTelemetry span.                                                *)
(*                                                                         *)
(* The backing document is a token sequence: json_dump produces it and     *)
(* json_load parses it, so that a save followed by a load is a real round  *)
(* trip.  A request is served by a worker; the handlers that read and then *)
(* write the document (save_course, delete_course) take two steps, the     *)
(* load and the write, with the worker's position kept in pc.              *)
(* I/O failures (unreadable or unwritable file) are not modelled.          *)
(***************************************************************************)
EXTENDS Integers, Sequences, FiniteSets, TLC

VARIABLES file, req

vars == <<file, req>>

\* ------------------------------------------------------------------ bounds
MaxInit == 2        \* longest catalog the document holds initially
MaxCatalog == 3     \* a save request is only issued below this length

\* ------------------------------------------------------------ input domains
Threads == {"w1", "w2"}
Names == {"A", "B"}
Codes == {"1", "2"}
Descriptions == {"d"}
Instructors == {"x"}
UrlCodes == Codes \cup {"99"}

Courses ==
  [name : Names, code : Codes, description : Descriptions, instructor : Instructors]

\* request.form: a mapping from the submitted field names to their values
FieldValues(k) ==
  IF k = "name" THEN Names
  ELSE IF k = "code" THEN Codes
  ELSE IF k = "description" THEN Descriptions
  ELSE Instructors

FieldNames == {"name", "code", "description", "instructor"}

Forms ==
  UNION { { fm \in [S -> Names \cup Codes \cup Descriptions \cup Instructors] :
              \A k \in S : fm[k] \in FieldValues(k) } : S \in SUBSET FieldNames }

NoForm == [k \in {} |-> ""]
NoAttrs == [k \in {} |-> ""]

\* ---------------------------------------------------------------- tracing
\* tracer.start_as_current_span(name) entered by a with statement
start_span(lg, name) == Append(lg, [ev |-> "start", name |-> name])

\* the with statement's exit, on return and on exception alike
end_span(lg, name) == Append(lg, [ev |-> "end", name |-> name])

\* span.set_attribute(key, value)
set_attribute(at, key, value) == (key :> value) @@ at

\* ------------------------------------------------------------------- JSON
\* json.dump of one course dict
json_dump_obj(c) ==
  << "{", "name", ":", c.name, ",", "code", ":", c.code, ",",
     "description", ":", c.description, ",", "instructor", ":", c.instructor, "}" >>

RECURSIVE json_dump_items(_)
json_dump_items(cs) ==
  IF cs = <<>> THEN <<>>
  ELSE IF Len(cs) = 1 THEN json_dump_obj(cs[1])
  ELSE json_dump_obj(cs[1]) \o <<",">> \o json_dump_items(Tail(cs))

\* json.dump(courses, file, indent=4): the text written to the document
json_dump(cs) == <<"[">> \o json_dump_items(cs) \o <<"]">>

\* one JSON object of four key/value pairs
json_is_obj(toks) ==
  /\ Len(toks) = 17
  /\ toks[1] = "{"
  /\ toks[17] = "}"
  /\ \A i \in 1..4 : toks[4 * i - 1] = ":"
  /\ \A i \in 1..3 : toks[4 * i + 1] = ","

\* the dict of an object: a repeated key keeps its last value
json_obj(toks) ==
  [ k \in { toks[4 * i - 2] : i \in 1..4 } |->
      LET last == CHOOSE i \in 1..4 :
                    /\ toks[4 * i - 2] = k
                    /\ \A j \in 1..4 : toks[4 * j - 2] = k => j <= i
      IN toks[4 * last] ]

RECURSIVE json_load_items(_)
json_load_items(toks) ==
  IF Len(toks) < 17 \/ ~json_is_obj(SubSeq(toks, 1, 17))
  THEN [exc |-> "JSONDecodeError", ret |-> <<>>]
  ELSE IF Len(toks) = 17
  THEN [exc |-> "none", ret |-> <<json_obj(toks)>>]
  ELSE IF toks[18] # ","
  THEN [exc |-> "JSONDecodeError", ret |-> <<>>]
  ELSE LET rest == json_load_items(SubSeq(toks, 19, Len(toks)))
       IN IF rest.exc = "none"
          THEN [exc |-> "none", ret |-> <<json_obj(SubSeq(toks, 1, 17))>> \o rest.ret]
          ELSE rest

json_load_lenient(text) ==
  IF Len(text) < 2 \/ text[1] # "[" \/ text[Len(text)] # "]"
  THEN [exc |-> "none", ret |-> <<>>]
  ELSE IF Len(text) = 2
  THEN [exc |-> "none", ret |-> <<>>]
  ELSE LET r == json_load_items(SubSeq(text, 2, Len(text) - 1))
       IN [exc |-> "none", ret |-> r.ret]

\* json.load(file): the parsed list, or JSONDecodeError
json_load(text) ==
  IF Len(text) < 2 \/ text[1] # "[" \/ text[Len(text)] # "]"
  THEN [exc |-> "JSONDecodeError", ret |-> <<>>]
  ELSE IF Len(text) = 2
  THEN [exc |-> "none", ret |-> <<>>]
  ELSE json_load_items(SubSeq(text, 2, Len(text) - 1))

\* ------------------------------------------------------------------- files
NoFile == [exists |-> FALSE, text |-> <<>>]

open_w_plus(f) == [exists |-> TRUE, text |-> <<>>]

\* open(COURSE_FILE, 'r'): the document after it was opened for reading
open_r(f) == f

\* open(COURSE_FILE, 'w') followed by json.dump(data, file, indent=4)
open_w_dump(data) == [exists |-> TRUE, text |-> json_dump(data)]

\* ------------------------------------------------------------- load_courses
load_courses_leak(f, lg) ==
  LET l1 == start_span(lg, "load_courses") IN
  IF ~f.exists
  THEN [exc |-> "none", ret |-> <<>>, file |-> f, log |-> l1]
  ELSE LET g == open_r(f)
           r == json_load(g.text)
       IN [exc |-> r.exc, ret |-> r.ret, file |-> g,
           log |-> end_span(l1, "load_courses")]

load_courses_no_exists_check(f, lg) ==
  LET l1 == start_span(lg, "load_courses") IN
  IF ~f.exists
  THEN [exc |-> "FileNotFoundError", ret |-> <<>>, file |-> f,
        log |-> end_span(l1, "load_courses")]
  ELSE LET g == open_r(f)
           r == json_load(g.text)
       IN [exc |-> r.exc, ret |-> r.ret, file |-> g,
           log |-> end_span(l1, "load_courses")]

\* load_courses(): the returned list or the exception that leaves it, the
\* document afterwards and the span log extended by its span
load_courses(f, lg) ==
  LET l1 == start_span(lg, "load_courses") IN
  IF ~f.exists
  THEN [exc |-> "none", ret |-> <<>>, file |-> f,
        log |-> end_span(l1, "load_courses")]
  ELSE LET g == open_r(f)
           r == json_load(g.text)
       IN [exc |-> r.exc, ret |-> r.ret, file |-> g,
           log |-> end_span(l1, "load_courses")]

\* ---------------------------------------------------------- handler pieces
form_get(fm, key) ==
  IF key \in DOMAIN fm
  THEN [exc |-> "none", ret |-> fm[key]]
  ELSE [exc |-> "none", ret |-> ""]

\* request.form[key]: the value, or BadRequestKeyError when it is missing
form_lookup(fm, key) ==
  IF key \in DOMAIN fm
  THEN [exc |-> "none", ret |-> fm[key]]
  ELSE [exc |-> "BadRequestKeyError", ret |-> ""]

\* the new_course dict literal of save_course
new_course(name, code, description, instructor) ==
  [name |-> name, code |-> code, description |-> description,
   instructor |-> instructor]

courses_prepend(cs, data) == <<data>> \o cs

courses_unchanged(cs, data) == cs

\* courses.append(data) in save_courses
courses_append(cs, data) == Append(cs, data)

RECURSIVE remove_first(_, _)
remove_first(cs, code) ==
  IF cs = <<>> THEN <<>>
  ELSE IF cs[1]["code"] = code THEN Tail(cs)
  ELSE <<cs[1]>> \o remove_first(Tail(cs), code)

RECURSIVE updated_courses(_, _)
\* [course for course in courses if course['code'] != code]
updated_courses(cs, code) ==
  IF cs = <<>> THEN <<>>
  ELSE IF cs[1]["code"] # code
  THEN <<cs[1]>> \o updated_courses(Tail(cs), code)
  ELSE updated_courses(Tail(cs), code)

next_course_last(cs, code) ==
  LET hits == { i \in 1..Len(cs) : cs[i]["code"] = code }
  IN IF hits = {} THEN <<>>
     ELSE <<cs[CHOOSE i \in hits : \A j \in hits : j <= i]>>

\* next((course for course in courses if course['code'] == code), None):
\* <<course>> for the first match, <<>> for None
next_course(cs, code) ==
  LET hits == { i \in 1..Len(cs) : cs[i]["code"] = code }
  IN IF hits = {} THEN <<>>
     ELSE <<cs[CHOOSE i \in hits : \A j \in hits : i <= j]>>

course_details_attrs_early(course, code) ==
  IF course = <<>>
  THEN set_attribute(set_attribute(NoAttrs, "course_code", code), "error", TRUE)
  ELSE set_attribute(NoAttrs, "course_code", code)

\* the attributes course_details sets on its span: error when no course
\* matched, course_code otherwise
course_details_attrs(course, code) ==
  IF course = <<>>
  THEN set_attribute(NoAttrs, "error", TRUE)
  ELSE set_attribute(NoAttrs, "course_code", code)

\* flash(message, category); a message is the sequence of its parts
flash(fl, message, category) ==
  Append(fl, [message |-> message, category |-> category])

render_template(template, ctx) ==
  [kind |-> "render", target |-> template, ctx |-> ctx]

\* redirect(url_for(endpoint))
redirect(endpoint) == [kind |-> "redirect", target |-> endpoint, ctx |-> <<>>]

\* an exception that leaves the view function: a server error
uncaught(exc) == [kind |-> "raise", target |-> exc, ctx |-> <<>>]

NoResp == [kind |-> "none", target |-> "", ctx |-> <<>>]

\* ------------------------------------------------------------------- state
IdleReq ==
  [pc |-> "idle", route |-> "", code |-> "", form |-> NoForm, courses |-> <<>>,
   resp |-> NoResp, flashes |-> <<>>, attrs |-> NoAttrs, log |-> <<>>,
   pre |-> NoFile]

RECURSIVE SeqsUpTo(_, _)
SeqsUpTo(S, n) ==
  IF n = 0 THEN { <<>> }
  ELSE LET shorter == SeqsUpTo(S, n - 1)
       IN shorter \cup { Append(s, x) : s \in shorter, x \in S }

BadTexts == { <<>>, <<"[", "{">> }

InitFiles ==
  {NoFile}
    \cup { [exists |-> TRUE, text |-> txt] : txt \in BadTexts }
    \cup { open_w_dump(cs) : cs \in SeqsUpTo(Courses, MaxInit) }

Init ==
  /\ file \in InitFiles
  /\ req = [t \in Threads |-> IdleReq]

Ready(t) == req[t].pc \in {"idle", "done"}

\* the length of the catalog the document holds (0 when absent or unreadable)
CatalogLen(f) == IF f.exists THEN Len(json_load(f.text).ret) ELSE 0

\* ---------------------------------------------------------------- handlers
\* GET /
index(t) ==
  /\ Ready(t)
  /\ LET l1 == start_span(<<>>, "index_page") IN
     req' = [req EXCEPT ![t] =
       [pc |-> "done", route |-> "index", code |-> "", form |-> NoForm,
        courses |-> <<>>, resp |-> render_template("index.html", <<>>),
        flashes |-> <<>>, attrs |-> NoAttrs,
        log |-> end_span(l1, "index_page"), pre |-> file]]
  /\ UNCHANGED file

\* GET /add_course
add_course(t) ==
  /\ Ready(t)
  /\ LET l1 == start_span(<<>>, "add_course_page") IN
     req' = [req EXCEPT ![t] =
       [pc |-> "done", route |-> "add_course", code |-> "", form |-> NoForm,
        courses |-> <<>>, resp |-> render_template("add_course.html", <<>>),
        flashes |-> <<>>, attrs |-> NoAttrs,
        log |-> end_span(l1, "add_course_page"), pre |-> file]]
  /\ UNCHANGED file

\* GET /catalog
course_catalog(t) ==
  /\ Ready(t)
  /\ LET l1 == start_span(<<>>, "course_catalog")
         ld == load_courses(file, l1)
     IN /\ req' = [req EXCEPT ![t] =
             [pc |-> "done", route |-> "course_catalog", code |-> "",
              form |-> NoForm, courses |-> ld.ret,
              resp |-> IF ld.exc = "none"
                       THEN render_template("course_catalog.html", ld.ret)
                       ELSE uncaught(ld.exc),
              flashes |-> <<>>, attrs |-> NoAttrs,
              log |-> end_span(ld.log, "course_catalog"), pre |-> file]]
        /\ file' = ld.file

\* GET /course/<code>
course_details(t, code) ==
  /\ Ready(t)
  /\ LET l1 == start_span(<<>>, "course_details")
         ld == load_courses(file, l1)
         course == next_course(ld.ret, code)
     IN /\ req' = [req EXCEPT ![t] =
             IF ld.exc # "none"
             THEN [pc |-> "done", route |-> "course_details", code |-> code,
                   form |-> NoForm, courses |-> <<>>, resp |-> uncaught(ld.exc),
                   flashes |-> <<>>, attrs |-> NoAttrs,
                   log |-> end_span(ld.log, "course_details"), pre |-> file]
             ELSE IF course = <<>>
             THEN [pc |-> "done", route |-> "course_details", code |-> code,
                   form |-> NoForm, courses |-> ld.ret,
                   resp |-> redirect("course_catalog"),
                   flashes |-> flash(<<>>,
                                 <<"No course found with code '", code, "'.">>,
                                 "error"),
                   attrs |-> course_details_attrs(course, code),
                   log |-> end_span(ld.log, "course_details"), pre |-> file]
             ELSE [pc |-> "done", route |-> "course_details", code |-> code,
                   form |-> NoForm, courses |-> ld.ret,
                   resp |-> render_template("course_details.html", course),
                   flashes |-> <<>>,
                   attrs |-> course_details_attrs(course, code),
                   log |-> end_span(ld.log, "course_details"), pre |-> file]]
        /\ file' = ld.file

\* POST /save_course, up to and including the load_courses() call made by
\* save_courses; the except branch when a field is missing or the load raises
save_course(t, fm) ==
  /\ Ready(t)
  /\ CatalogLen(file) < MaxCatalog
  /\ LET l1 == start_span(<<>>, "save_course")
         name == form_lookup(fm, "name")
         code == form_lookup(fm, "code")
         description == form_lookup(fm, "description")
         instructor == form_lookup(fm, "instructor")
         raised == \E r \in {name, code, description, instructor} : r.exc # "none"
         l2 == start_span(l1, "save_courses")
         ld == load_courses(file, l2)
     IN IF raised
        THEN /\ req' = [req EXCEPT ![t] =
                  [pc |-> "done", route |-> "save_course", code |-> "",
                   form |-> fm, courses |-> <<>>,
                   resp |-> redirect("course_catalog"),
                   flashes |-> flash(<<>>, <<"Failed to add course.">>, "error"),
                   attrs |-> set_attribute(NoAttrs, "error", TRUE),
                   log |-> end_span(l1, "save_course"), pre |-> file]]
             /\ UNCHANGED file
        ELSE IF ld.exc # "none"
        THEN /\ req' = [req EXCEPT ![t] =
                  [pc |-> "done", route |-> "save_course", code |-> "",
                   form |-> fm, courses |-> <<>>,
                   resp |-> redirect("course_catalog"),
                   flashes |-> flash(<<>>, <<"Failed to add course.">>, "error"),
                   attrs |-> set_attribute(NoAttrs, "error", TRUE),
                   log |-> end_span(end_span(ld.log, "save_courses"), "save_course"),
                   pre |-> file]]
             /\ file' = ld.file
        ELSE /\ req' = [req EXCEPT ![t] =
                  [pc |-> "save_write", route |-> "save_course", code |-> "",
                   form |-> fm, courses |-> ld.ret, resp |-> NoResp,
                   flashes |-> <<>>, attrs |-> NoAttrs, log |-> ld.log,
                   pre |-> file]]
             /\ file' = ld.file

\* the rest of save_courses (append, rewrite the document) and of save_course
save_courses_write(t) ==
  /\ req[t].pc = "save_write"
  /\ LET fm == req[t].form
         name == form_lookup(fm, "name").ret
         code == form_lookup(fm, "code").ret
         data == new_course(name, code, form_lookup(fm, "description").ret,
                            form_lookup(fm, "instructor").ret)
         courses == courses_append(req[t].courses, data)
         l3 == end_span(req[t].log, "save_courses")
         a1 == set_attribute(req[t].attrs, "course_name", name)
         a2 == set_attribute(a1, "course_code", code)
     IN /\ file' = open_w_dump(courses)
        /\ req' = [req EXCEPT ![t] =
             [@ EXCEPT !.pc = "done",
                       !.resp = redirect("course_catalog"),
                       !.flashes = flash(@, <<"Course added successfully!">>, "success"),
                       !.attrs = a2,
                       !.log = end_span(l3, "save_course")]]

\* POST /delete_course/<code>, up to and including load_courses()
delete_course(t, code) ==
  /\ Ready(t)
  /\ LET l1 == start_span(<<>>, "delete_course")
         ld == load_courses(file, l1)
     IN /\ req' = [req EXCEPT ![t] =
             IF ld.exc # "none"
             THEN [pc |-> "done", route |-> "delete_course", code |-> code,
                   form |-> NoForm, courses |-> <<>>, resp |-> uncaught(ld.exc),
                   flashes |-> <<>>, attrs |-> NoAttrs,
                   log |-> end_span(ld.log, "delete_course"), pre |-> file]
             ELSE [pc |-> "delete_write", route |-> "delete_course",
                   code |-> code, form |-> NoForm, courses |-> ld.ret,
                   resp |-> NoResp, flashes |-> <<>>, attrs |-> NoAttrs,
                   log |-> ld.log, pre |-> file]]
        /\ file' = ld.file

\* the rest of delete_course: filter, rewrite the document, answer
delete_course_write(t) ==
  /\ req[t].pc = "delete_write"
  /\ LET code == req[t].code IN
     /\ file' = open_w_dump(updated_courses(req[t].courses, code))
     /\ req' = [req EXCEPT ![t] =
          [@ EXCEPT !.pc = "done",
                    !.resp = redirect("course_catalog"),
                    !.flashes = flash(@,
                        <<"Course with code '", code, "' has been deleted.">>,
                        "success"),
                    !.attrs = set_attribute(@, "deleted_course_code", code),
                    !.log = end_span(@, "delete_course")]]

\* ---------------------------------------------------------- specifications
\* one worker: requests are served one after the other
Next ==
  \/ index("w1")
  \/ add_course("w1")
  \/ course_catalog("w1")
  \/ \E code \in UrlCodes : course_details("w1", code)
  \/ \E fm \in Forms : save_course("w1", fm)
  \/ save_courses_write("w1")
  \/ \E code \in UrlCodes : delete_course("w1", code)
  \/ delete_course_write("w1")

Spec == Init /\ [][Next]_vars

\* two workers, each serving one POST /save_course, interleaved at the
\* load and at the write of save_courses
NextRace ==
  \/ \E t \in Threads, fm \in Forms : req[t].pc = "idle" /\ save_course(t, fm)
  \/ \E t \in Threads : save_courses_write(t)

SpecRace == Init /\ [][NextRace]_vars

TypeOK ==
  /\ file.exists \in BOOLEAN
  /\ \A t \in Threads : req[t].pc \in {"idle", "save_write", "delete_write", "done"}

\* ------------------------------------------------------ property vocabulary
Done(t, r) == req[t].pc = "done" /\ req[t].route = r

\* what load_courses() yields on a document, and whether it returns at all
Catalog(f) == load_courses(f, <<>>).ret
WellFormed(f) == load_courses(f, <<>>).exc = "none"

\* the document exists and its text is not well-formed JSON
Garbled(f) == f.exists /\ f.text \in BadTexts

FullForm(fm) == DOMAIN fm = FieldNames
FormCourse(fm) == [k \in FieldNames |-> fm[k]]

SuccessNotice == <<[message |-> <<"Course added successfully!">>, category |-> "success"]>>
FailureNotice == <<[message |-> <<"Failed to add course.">>, category |-> "error"]>>

Succeeded(t) == Done(t, "save_course") /\ req[t].flashes = SuccessNotice

HasCode(cs, k) == \E i \in 1..Len(cs) : cs[i]["code"] = k
KeepOthers(cs, k) == SelectSeq(cs, LAMBDA c : c["code"] # k)

RECURSIVE Replay(_, _)
\* replays a span log on a stack: ok iff every end closes the innermost span
Replay(lg, stack) ==
  IF lg = <<>> THEN [ok |-> TRUE, stack |-> stack]
  ELSE IF Head(lg).ev = "start"
  THEN Replay(Tail(lg), Append(stack, Head(lg).name))
  ELSE IF stack # <<>> /\ stack[Len(stack)] = Head(lg).name
  THEN Replay(Tail(lg), SubSeq(stack, 1, Len(stack) - 1))
  ELSE [ok |-> FALSE, stack |-> stack]

\* ------------------------------------------------------------------ claims

\* C1: a POST /save_course with all four fields on a well-formed (or absent)
\* document leaves the document holding the prior catalog followed by the
\* submitted course, and answers with a redirect to the catalog and the
\* success notice.
C1_SaveAppendsLast ==
  \A t \in Threads :
    (Done(t, "save_course") /\ FullForm(req[t].form) /\ WellFormed(req[t].pre)) =>
      /\ file.exists
      /\ WellFormed(file)
      /\ Catalog(file) = Catalog(req[t].pre) \o <<FormCourse(req[t].form)>>
      /\ req[t].resp = redirect("course_catalog")
      /\ req[t].flashes = SuccessNotice

C1_Witness ==
  \E t \in Threads :
    /\ Succeeded(t)
    /\ FullForm(req[t].form)
    /\ req[t].pre.exists
    /\ Len(Catalog(req[t].pre)) >= 1
    /\ Catalog(req[t].pre)[1] # FormCourse(req[t].form)
    /\ Len(Catalog(file)) = Len(Catalog(req[t].pre)) + 1

\* C2: after POST /delete_course/k on a well-formed document the persisted
\* catalog is the prior catalog without the courses of code k, the others in
\* their original order; it is the prior catalog when none has code k, and
\* no course of code k is left, so that a second delete changes nothing.
C2_DeleteFilters ==
  \A t \in Threads :
    (Done(t, "delete_course") /\ WellFormed(req[t].pre)) =>
      LET C == Catalog(req[t].pre)
          k == req[t].code
      IN /\ file.exists
         /\ WellFormed(file)
         /\ Catalog(file) = KeepOthers(C, k)
         /\ ~HasCode(C, k) => Catalog(file) = C
         /\ ~HasCode(Catalog(file), k)
         /\ KeepOthers(Catalog(file), k) = Catalog(file)

C2_Witness ==
  \E t \in Threads :
    /\ Done(t, "delete_course")
    /\ WellFormed(req[t].pre)
    /\ Len(Catalog(req[t].pre)) >= Len(Catalog(file)) + 2
    /\ Len(Catalog(file)) >= 1

\* C3: GET /course/k on a well-formed document renders the detail view with
\* the first course of code k, and redirects to the catalog with an error
\* notice containing k when there is none; it never raises.
C3_DetailsFirstMatch ==
  \A t \in Threads :
    (Done(t, "course_details") /\ WellFormed(req[t].pre)) =>
      LET C == Catalog(req[t].pre)
          k == req[t].code
          hits == { i \in 1..Len(C) : C[i]["code"] = k }
      IN /\ req[t].resp.kind # "raise"
         /\ hits # {} =>
              /\ req[t].resp =
                   render_template("course_details.html",
                     <<C[CHOOSE i \in hits : \A j \in hits : i <= j]>>)
              /\ req[t].flashes = <<>>
         /\ hits = {} =>
              /\ req[t].resp = redirect("course_catalog")
              /\ Len(req[t].flashes) = 1
              /\ req[t].flashes[1].category = "error"
              /\ \E i \in 1..Len(req[t].flashes[1].message) :
                   req[t].flashes[1].message[i] = k

C3_Witness ==
  \E t \in Threads :
    /\ Done(t, "course_details")
    /\ WellFormed(req[t].pre)
    /\ LET C == Catalog(req[t].pre)
       IN \E i, j \in 1..Len(C) :
            /\ i < j
            /\ C[i]["code"] = req[t].code
            /\ C[j]["code"] = req[t].code
            /\ C[i] # C[j]
            /\ req[t].resp.ctx = <<C[i]>>

\* C4: a POST /save_course that lacks at least one of the four fields
\* redirects to the catalog with the failure notice and leaves the document
\* as it was, absent included.
C4_MissingFieldNoWrite ==
  \A t \in Threads :
    (Done(t, "save_course") /\ ~FullForm(req[t].form)) =>
      /\ req[t].resp = redirect("course_catalog")
      /\ req[t].flashes = FailureNotice
      /\ file = req[t].pre

C4_Witness ==
  \E t \in Threads :
    /\ Done(t, "save_course")
    /\ DOMAIN req[t].form = FieldNames \ {"instructor"}
    /\ ~req[t].pre.exists
    /\ ~file.exists
    /\ req[t].flashes = FailureNotice

\* C5 as stated: on an absent document every finished request other than a
\* successful save leaves it absent.
C5_OnlySaveCreates ==
  \A t \in Threads :
    (req[t].pc = "done" /\ ~req[t].pre.exists /\ ~Succeeded(t)) => ~file.exists

\* C5 as amended: on an absent document load_courses() returns the empty
\* list without error, and the document stays absent until a successful
\* save or a delete_course request rewrites it; a delete creates it holding
\* the empty catalog.
C5_SaveOrDeleteCreates ==
  \A t \in Threads :
    (req[t].pc # "idle" /\ ~req[t].pre.exists) =>
      /\ req[t].resp.kind # "raise"
      /\ req[t].courses = <<>>
      /\ req[t].pc \in {"save_write", "delete_write"} => ~file.exists
      /\ req[t].pc = "done" =>
           /\ file.exists <=> (Succeeded(t) \/ req[t].route = "delete_course")
           /\ req[t].route = "course_catalog" =>
                req[t].resp = render_template("course_catalog.html", <<>>)
           /\ req[t].route = "delete_course" =>
                (WellFormed(file) /\ Catalog(file) = <<>>)

C5_Witness ==
  \E t \in Threads :
    /\ Done(t, "delete_course")
    /\ ~req[t].pre.exists
    /\ file.exists
    /\ Catalog(file) = <<>>

\* C6: two save_courses calls that both succeed: when both loaded the same
\* catalog C the document ends as C plus the course of one of them only (the
\* last writer); when one loaded what the other had written the document
\* ends with both courses, in the order of the calls.
C6_LostUpdate ==
  LET a == req["w1"]
      b == req["w2"]
      X == FormCourse(a.form)
      Y == FormCourse(b.form)
  IN (Succeeded("w1") /\ Succeeded("w2")) =>
       /\ \/ a.courses = b.courses
          \/ a.courses = Append(b.courses, Y)
          \/ b.courses = Append(a.courses, X)
       /\ a.courses = b.courses =>
            Catalog(file) \in {Append(a.courses, X), Append(a.courses, Y)}
       /\ a.courses = Append(b.courses, Y) =>
            Catalog(file) = b.courses \o <<Y, X>>
       /\ b.courses = Append(a.courses, X) =>
            Catalog(file) = a.courses \o <<X, Y>>

C6_Witness ==
  /\ Succeeded("w1")
  /\ Succeeded("w2")
  /\ req["w1"].courses = req["w2"].courses
  /\ Len(req["w1"].courses) >= 1
  /\ FormCourse(req["w1"].form) # FormCourse(req["w2"].form)
  /\ Catalog(file) = Append(req["w1"].courses, FormCourse(req["w2"].form))

\* C7 as stated: on a document that is not well-formed JSON each of the four
\* loading requests ends in an uncaught decode error, without notice, and
\* leaves the document unchanged.
C7_DecodeErrorAlwaysFatal ==
  \A t \in Threads :
    ( /\ req[t].pc = "done"
      /\ Garbled(req[t].pre)
      /\ \/ req[t].route \in {"course_catalog", "course_details", "delete_course"}
         \/ req[t].route = "save_course" /\ FullForm(req[t].form) ) =>
      /\ req[t].resp = uncaught("JSONDecodeError")
      /\ req[t].flashes = <<>>
      /\ file = req[t].pre

\* C7 as amended: on such a document GET /catalog, GET /course/<code> and
\* POST /delete_course/<code> end in an uncaught decode error without
\* notice, POST /save_course catches it and redirects to the catalog with
\* the failure notice, and all four leave the document unchanged.
C7_DecodeErrorFatalButSave ==
  \A t \in Threads :
    (req[t].pc = "done" /\ Garbled(req[t].pre)) =>
      /\ file = req[t].pre
      /\ req[t].route \in {"course_catalog", "course_details", "delete_course"} =>
           /\ req[t].resp = uncaught("JSONDecodeError")
           /\ req[t].flashes = <<>>
      /\ req[t].route = "save_course" =>
           /\ req[t].resp = redirect("course_catalog")
           /\ req[t].flashes = FailureNotice

C7_Witness ==
  \E t \in Threads :
    /\ Done(t, "save_course")
    /\ FullForm(req[t].form)
    /\ Garbled(req[t].pre)
    /\ req[t].resp = redirect("course_catalog")
    /\ file = req[t].pre

\* C8: every end of a span closes the innermost open span, the handler's
\* span is the first opened, and a finished request has no open span; a
\* successful save opens save_course, save_courses, load_courses and closes
\* them in the reverse order.
C8_SpansClosedLifo ==
  \A t \in Threads :
    LET r == Replay(req[t].log, <<>>)
    IN /\ r.ok
       /\ req[t].pc # "idle" => Len(req[t].log) >= 1 /\ req[t].log[1].ev = "start"
       /\ req[t].pc = "done" => r.stack = <<>>
       /\ req[t].pc = "save_write" => r.stack = <<"save_course", "save_courses">>
       /\ req[t].pc = "delete_write" => r.stack = <<"delete_course">>
       /\ Succeeded(t) =>
            req[t].log =
              << [ev |-> "start", name |-> "save_course"],
                 [ev |-> "start", name |-> "save_courses"],
                 [ev |-> "start", name |-> "load_courses"],
                 [ev |-> "end", name |-> "load_courses"],
                 [ev |-> "end", name |-> "save_courses"],
                 [ev |-> "end", name |-> "save_course"] >>

C8_Witness ==
  \E t \in Threads :
    /\ Succeeded(t)
    /\ ~req[t].pre.exists
    /\ Len(req[t].log) = 6
    /\ Replay(req[t].log, <<>>).stack = <<>>

\* the span attributes of the course-detail path
C9_Details ==
  \A t \in Threads :
    Done(t, "course_details") =>
      LET found == WellFormed(req[t].pre) /\ HasCode(Catalog(req[t].pre), req[t].code)
          failed == WellFormed(req[t].pre) /\ ~HasCode(Catalog(req[t].pre), req[t].code)
          at == req[t].attrs
      IN /\ "error" \in DOMAIN at <=> failed
         /\ "course_code" \in DOMAIN at <=> found
         /\ ~("error" \in DOMAIN at /\ "course_code" \in DOMAIN at)
         /\ found => at["course_code"] = req[t].code

\* the span attributes of the save path
C9_Save ==
  \A t \in Threads :
    Done(t, "save_course") =>
      LET appended ==
            /\ file.exists
            /\ FullForm(req[t].form)
            /\ file # req[t].pre
            /\ Catalog(file) = Append(Catalog(req[t].pre), FormCourse(req[t].form))
          at == req[t].attrs
      IN /\ ("course_name" \in DOMAIN at /\ "course_code" \in DOMAIN at) <=> appended
         /\ "course_name" \in DOMAIN at <=> "course_code" \in DOMAIN at
         /\ appended => /\ at["course_name"] = req[t].form["name"]
                        /\ at["course_code"] = req[t].form["code"]
         /\ "error" \in DOMAIN at <=> req[t].flashes = FailureNotice
         /\ "error" \in DOMAIN at <=> ~appended

\* C9 as stated: the attributes agree with the outcome on the detail and the
\* save path, and every delete request sets deleted_course_code.
C9_AttrsEveryDelete ==
  /\ C9_Details
  /\ C9_Save
  /\ \A t \in Threads :
       Done(t, "delete_course") =>
         /\ "deleted_course_code" \in DOMAIN req[t].attrs
         /\ req[t].attrs["deleted_course_code"] = req[t].code

\* C9 as amended: the same, with deleted_course_code set on every delete
\* request whose load_courses() call returns, whether or not a course of
\* that code existed, and no attribute set by a delete request that ends in
\* the decode error.
C9_AttrsLoadedDelete ==
  /\ C9_Details
  /\ C9_Save
  /\ \A t \in Threads :
       Done(t, "delete_course") =>
         IF WellFormed(req[t].pre)
         THEN /\ DOMAIN req[t].attrs = {"deleted_course_code"}
              /\ req[t].attrs["deleted_course_code"] = req[t].code
         ELSE DOMAIN req[t].attrs = {}

C9_Witness ==
  \E t \in Threads :
    /\ Done(t, "delete_course")
    /\ WellFormed(req[t].pre)
    /\ Len(Catalog(req[t].pre)) >= 1
    /\ ~HasCode(Catalog(req[t].pre), req[t].code)
    /\ req[t].attrs["deleted_course_code"] = req[t].code

\* C10: GET /, GET /catalog, GET /course/<code> and GET /add_course leave
\* the document, its existence and its text, as it was before the request,
\* and load_courses() never writes it (it is still untouched between the
\* load and the write of a save or a delete).
C10_ReadOnlyHandlers ==
  /\ load_courses(file, <<>>).file = file
  /\ \A t \in Threads :
       /\ ( /\ req[t].pc = "done"
            /\ req[t].route \in {"index", "course_catalog", "course_details",
                                 "add_course"} ) => file = req[t].pre
       /\ req[t].pc \in {"save_write", "delete_write"} => file = req[t].pre

C10_Witness ==
  \E t \in Threads :
    /\ Done(t, "course_details")
    /\ req[t].resp = redirect("course_catalog")
    /\ req[t].pre.exists
    /\ Len(Catalog(req[t].pre)) >= 1
    /\ file = req[t].pre

====
